---- MODULE Spec2Model ----
(***************************************************************************)
(* Model of l20_position_publisher.py: the node L20PositionPublisher, its  *)
(* timer callback publish_command and the entry point main.                *)
(*                                                                         *)
(* Time is counted in half seconds, positions in tenths of a device unit   *)
(* (127.5 is 1275).  Lists are objects on a heap and are held by           *)
(* reference, as in Python: heap[r] is the content of the list r, and the  *)
(* reference 0 is "no list" (an attribute not assigned yet, or the empty   *)
(* default of a fresh message field).                                      *)
(*                                                                         *)
(* The constructor and publish_command are split at the statements where   *)
(* the outside can act between two of them: time passes, the timer falls   *)
(* due, SIGINT raises KeyboardInterrupt, a call into rclpy raises.  The    *)
(* class JointState is imported, not defined here: whether assigning to    *)
(* msg.position stores the list given or a copy of it is fixed per run by  *)
(* setterCopies, and both cases are explored.                              *)
(***************************************************************************)
EXTENDS Integers, Sequences, FiniteSets, TLC

\* ---------------------------------------------------------------- bounds
\* Time runs from 0 to MaxTime half seconds.
MaxTime == 8
\* At most MaxSignals SIGINTs are delivered to the process in one run.
MaxSignals == 2
\* Downstream holders mutate emitted messages at most MaxMutations times.
MaxMutations == 1

\* ------------------------------------------------------ program constants
\* timer_period = 1.0 s, in half seconds.
TimerPeriod == 2

\* self.target_position, in tenths.
TargetPosition ==
    << 1000, 100, 100, 100, 100,
       2550, 1275, 1275, 1275, 1275,
       0, 0, 0, 0, 0,
       2000, 0, 500, 500, 500 >>

\* A variant of the velocity hint with one entry per joint.
VelocityPerJoint == [i \in 1..20 |-> 500]

\* msg.velocity = [50.0]*5, in tenths.
Velocity == [i \in 1..5 |-> 500]

\* msg.effort = []
Effort == << >>

\* The statements of main, in program order.
MainOrder == << "rclpy.init", "L20PositionPublisher", "rclpy.spin",
                "destroy_node", "rclpy.shutdown" >>

\* Positions of main while the constructor L20PositionPublisher() runs.
Constructing == { "node_init", "create_publisher", "create_timer",
                  "set_target", "log_ready" }

\* Positions of main inside the try block (lines 84-89).
TryBlock == Constructing \cup { "spin" }

\* Positions of main inside the finally block (lines 94-97).
FinallyBlock == { "destroy_node", "shutdown" }

VARIABLES
    pc,                 \* position of main
    now,                \* the clock, in half seconds
    signals,            \* the SIGINTs delivered so far: where and when
    position_publisher, \* is main's local variable bound?
    pending,            \* the exception travelling through the finally block
    outcome,            \* how main ended: "return" or the exception raised
    calls,              \* the statements of main that were started
    publisher_,         \* does the node hold its publisher handle?
    timer,              \* the node's timer
    target_position,    \* reference of self.target_position (0: not assigned)
    heap,               \* contents of the list objects
    setterCopies,       \* does JointState's position setter store a copy?
    running,            \* stack of publish_command invocations in progress
    sent,               \* the messages handed to the transport, in order
    log,                \* the lines written to the logger
    fired,              \* number of timer callbacks dispatched
    sendFailures,       \* number of publish calls that raised
    constructFailure,   \* the constructor step that raised, or "none"
    mutations           \* number of downstream mutations of emitted messages

vars == << pc, now, signals, position_publisher, pending, outcome, calls,
           publisher_, timer, target_position, heap, setterCopies, running,
           sent, log, fired, sendFailures, constructFailure, mutations >>

\* ---------------------------------------------------------------- helpers
\* The content of the list a reference denotes.
Deref(r) == IF r = 0 THEN << >> ELSE heap[r]

\* JointState(): every array field of a fresh message is empty.
NewMessage == [ stamp |-> 0, position |-> 0, velocity |-> << >>, effort |-> << >> ]

\* A variant of the fixed-rate timer whose first call is due at once.
FirstCallImmediate(t) == t

\* create_timer(timer_period, cb): the first call is due one period later.
FirstCallTime(t) == t + TimerPeriod

\* A variant of the timer that skips every other period.
NextCallTimeSkipping(next, t) == next + 2 * TimerPeriod

\* The timer's next due time after a call dispatched at time t that was due
\* at next: one period later, and when that is already past, the first
\* multiple of the period that is not.
NextCallTime(next, t) ==
    IF next + TimerPeriod >= t
    THEN next + TimerPeriod
    ELSE LET behind == t - (next + TimerPeriod)
             ahead  == 1 + ((behind - 1) \div TimerPeriod)
         IN  next + TimerPeriod + ahead * TimerPeriod

\* The timer is armed and its next call is due.
TimerReady == timer.state = "armed" /\ now >= timer.next

\* A variant of the executor that dispatches the timer wherever main is.
CanDispatchAnywhere == running = << >> /\ TimerReady

\* A variant of the executor that dispatches a due timer while a callback runs.
CanDispatchReentrant == pc = "spin" /\ TimerReady

\* rclpy.spin (single-threaded executor): a callback is dispatched only from
\* spin, and only when no callback is running.
CanDispatch == pc = "spin" /\ running = << >> /\ TimerReady

\* A variant of publish_command that forgets to assign the positions.
AssignFieldsNoPosition(msg, ref) ==
    [ msg EXCEPT !.velocity = Velocity, !.effort = Effort ]

\* Lines 63-68 of publish_command: the three array fields of the message.
AssignFields(msg, ref) ==
    [ msg EXCEPT !.position = ref, !.velocity = Velocity, !.effort = Effort ]

\* A variant of main whose except clause re-raises the interrupt.
CaughtReraise(exc) == exc

\* except KeyboardInterrupt: pass -- the interrupt is swallowed.
Caught(exc) == "none"

\* The top frame of the callback stack.
Top == running[Len(running)]

Pop(s) == SubSeq(s, 1, Len(s) - 1)

\* ------------------------------------------------------------------- Init
Init ==
    /\ pc = "rclpy_init"
    /\ now = 0
    /\ signals = << >>
    /\ position_publisher = FALSE
    /\ pending = "none"
    /\ outcome = "none"
    /\ calls = << >>
    /\ publisher_ = FALSE
    /\ timer = [ state |-> "none", created |-> 0, next |-> 0 ]
    /\ target_position = 0
    /\ heap = << >>
    /\ setterCopies \in BOOLEAN
    /\ running = << >>
    /\ sent = << >>
    /\ log = << >>
    /\ fired = 0
    /\ sendFailures = 0
    /\ constructFailure = "none"
    /\ mutations = 0

\* ------------------------------------------------------------------- main
\* rclpy.init(args=args)
RclpyInit ==
    /\ pc = "rclpy_init"
    /\ pc' = "node_init"
    /\ calls' = Append(calls, "rclpy.init")
    /\ UNCHANGED << now, signals, position_publisher, pending, outcome,
                    publisher_, timer, target_position, heap, setterCopies,
                    running, sent, log, fired, sendFailures,
                    constructFailure, mutations >>

\* L20PositionPublisher(): super().__init__('l20_position_publisher')
NodeInit ==
    /\ pc = "node_init"
    /\ pc' = "create_publisher"
    /\ calls' = Append(calls, "L20PositionPublisher")
    /\ UNCHANGED << now, signals, position_publisher, pending, outcome,
                    publisher_, timer, target_position, heap, setterCopies,
                    running, sent, log, fired, sendFailures,
                    constructFailure, mutations >>

\* self.publisher_ = self.create_publisher(JointState, topic_name, 10)
CreatePublisher ==
    /\ pc = "create_publisher"
    /\ pc' = "create_timer"
    /\ publisher_' = TRUE
    /\ UNCHANGED << now, signals, position_publisher, pending, outcome, calls,
                    timer, target_position, heap, setterCopies, running, sent,
                    log, fired, sendFailures, constructFailure, mutations >>

\* self.timer = self.create_timer(timer_period, self.publish_command)
CreateTimer ==
    /\ pc = "create_timer"
    /\ pc' = "set_target"
    /\ timer' = [ state |-> "armed", created |-> now, next |-> FirstCallTime(now) ]
    /\ UNCHANGED << now, signals, position_publisher, pending, outcome, calls,
                    publisher_, target_position, heap, setterCopies, running,
                    sent, log, fired, sendFailures, constructFailure,
                    mutations >>

\* self.target_position = [100.0, 10.0, ...]
SetTarget ==
    /\ pc = "set_target"
    /\ pc' = "log_ready"
    /\ heap' = Append(heap, TargetPosition)
    /\ target_position' = Len(heap) + 1
    /\ UNCHANGED << now, signals, position_publisher, pending, outcome, calls,
                    publisher_, timer, setterCopies, running, sent, log, fired,
                    sendFailures, constructFailure, mutations >>

\* The constructor's last line logs, the constructor returns, main binds
\* position_publisher and calls rclpy.spin(position_publisher).
LogReady ==
    /\ pc = "log_ready"
    /\ pc' = "spin"
    /\ log' = Append(log, [ kind |-> "ready", time |-> now,
                            position |-> << >> ])
    /\ position_publisher' = TRUE
    /\ calls' = Append(calls, "rclpy.spin")
    /\ UNCHANGED << now, signals, pending, outcome, publisher_, timer,
                    target_position, heap, setterCopies, running, sent, fired,
                    sendFailures, constructFailure, mutations >>

\* The node, the publisher or the timer cannot be created: the constructor
\* raises inside the try block; no except clause matches, the finally block
\* runs with the exception pending.
ConstructFails ==
    /\ pc \in { "node_init", "create_publisher", "create_timer" }
    /\ constructFailure' = pc
    /\ pending' = "ConstructError"
    /\ pc' = "destroy_node"
    /\ calls' = IF pc = "node_init" THEN Append(calls, "L20PositionPublisher")
                ELSE calls
    /\ UNCHANGED << now, signals, position_publisher, outcome, publisher_,
                    timer, target_position, heap, setterCopies, running, sent,
                    log, fired, sendFailures, mutations >>

\* finally: position_publisher.destroy_node().  When the constructor did not
\* return, the local variable is unbound and the statement raises
\* UnboundLocalError, which replaces the pending exception and leaves main.
DestroyNode ==
    /\ pc = "destroy_node"
    /\ IF position_publisher
       THEN /\ pc' = "shutdown"
            /\ calls' = Append(calls, "destroy_node")
            /\ timer' = [ timer EXCEPT !.state = "cancelled" ]
            /\ publisher_' = FALSE
            /\ UNCHANGED << pending, outcome >>
       ELSE /\ pc' = "exited"
            /\ pending' = "UnboundLocalError"
            /\ outcome' = "UnboundLocalError"
            /\ UNCHANGED << calls, timer, publisher_ >>
    /\ UNCHANGED << now, signals, position_publisher, target_position, heap,
                    setterCopies, running, sent, log, fired, sendFailures,
                    constructFailure, mutations >>

\* finally: rclpy.shutdown(); then main returns, or the pending exception
\* continues to main's caller.
Shutdown ==
    /\ pc = "shutdown"
    /\ pc' = "exited"
    /\ calls' = Append(calls, "rclpy.shutdown")
    /\ outcome' = IF pending = "none" THEN "return" ELSE pending
    /\ UNCHANGED << now, signals, position_publisher, pending, publisher_,
                    timer, target_position, heap, setterCopies, running, sent,
                    log, fired, sendFailures, constructFailure, mutations >>

\* SIGINT: Python raises KeyboardInterrupt in the main thread, wherever it
\* is.  Before the try block it leaves main at once; inside the try block the
\* except clause swallows it and the finally block runs; inside the finally
\* block it cuts the cleanup short.
Interrupt ==
    /\ pc # "exited"
    /\ Len(signals) < MaxSignals
    /\ signals' = Append(signals, [ pc |-> pc, time |-> now, fired |-> fired ])
    /\ running' = << >>
    /\ IF pc \in TryBlock
       THEN /\ pc' = "destroy_node"
            /\ pending' = Caught("KeyboardInterrupt")
            /\ UNCHANGED outcome
       ELSE /\ pc' = "exited"
            /\ outcome' = "KeyboardInterrupt"
            /\ UNCHANGED pending
    /\ UNCHANGED << now, position_publisher, calls, publisher_, timer,
                    target_position, heap, setterCopies, sent, log, fired,
                    sendFailures, constructFailure, mutations >>

\* ------------------------------------------------------- publish_command
\* The executor dispatches the due timer; publish_command starts:
\* msg = JointState(); msg.header.stamp = self.get_clock().now().to_msg()
TimerFires ==
    /\ CanDispatch
    /\ timer' = [ timer EXCEPT !.next = NextCallTime(timer.next, now) ]
    /\ fired' = fired + 1
    /\ running' = Append(running,
                         [ step |-> "assign",
                           msg |-> [ NewMessage EXCEPT !.stamp = now ] ])
    /\ UNCHANGED << pc, now, signals, position_publisher, pending, outcome,
                    calls, publisher_, target_position, heap, setterCopies,
                    sent, log, sendFailures, constructFailure, mutations >>

\* msg.position = self.target_position; msg.velocity = [50.0]*5;
\* msg.effort = [].  The message holds the list it was given, or a copy of
\* it, as JointState's setter decides.  Reading an attribute that was never
\* assigned raises AttributeError, which leaves spin and the try block.
AssignMessage ==
    /\ running # << >>
    /\ Top.step = "assign"
    /\ IF target_position = 0
       THEN /\ running' = << >>
            /\ pending' = "AttributeError"
            /\ pc' = "destroy_node"
            /\ UNCHANGED heap
       ELSE /\ heap' = IF setterCopies
                       THEN Append(heap, heap[target_position])
                       ELSE heap
            /\ running' =
                 [ running EXCEPT ![Len(running)] =
                     [ step |-> "publish",
                       msg  |-> AssignFields(Top.msg,
                                   IF setterCopies THEN Len(heap) + 1
                                   ELSE target_position) ] ]
            /\ UNCHANGED << pc, pending >>
    /\ UNCHANGED << now, signals, position_publisher, outcome, calls,
                    publisher_, timer, target_position, setterCopies, sent,
                    log, fired, sendFailures, constructFailure, mutations >>

\* self.publisher_.publish(msg) returns: the transport has the message.
PublishOk ==
    /\ running # << >>
    /\ Top.step = "publish"
    /\ sent' = Append(sent, Top.msg)
    /\ running' = [ running EXCEPT ![Len(running)].step = "log" ]
    /\ UNCHANGED << pc, now, signals, position_publisher, pending, outcome,
                    calls, publisher_, timer, target_position, heap,
                    setterCopies, log, fired, sendFailures, constructFailure,
                    mutations >>

\* self.publisher_.publish(msg) raises.  publish_command has no handler, so
\* the exception leaves the callback and rclpy.spin; main's except clause
\* does not match it and the finally block runs with it pending.
PublishFails ==
    /\ running # << >>
    /\ Top.step = "publish"
    /\ sendFailures' = sendFailures + 1
    /\ running' = << >>
    /\ pending' = "PublishError"
    /\ pc' = "destroy_node"
    /\ UNCHANGED << now, signals, position_publisher, outcome, calls,
                    publisher_, timer, target_position, heap, setterCopies,
                    sent, log, fired, constructFailure, mutations >>

\* self.get_logger().info(f'Publishing position command: {msg.position}');
\* publish_command returns.
LogPublished ==
    /\ running # << >>
    /\ Top.step = "log"
    /\ log' = Append(log, [ kind |-> "publish", time |-> now,
                            position |-> Deref(Top.msg.position) ])
    /\ running' = Pop(running)
    /\ UNCHANGED << pc, now, signals, position_publisher, pending, outcome,
                    calls, publisher_, timer, target_position, heap,
                    setterCopies, sent, fired, sendFailures, constructFailure,
                    mutations >>

\* ------------------------------------------------------------ environment
\* Half a second passes; any statement may take that long.
Advance ==
    /\ now < MaxTime
    /\ now' = now + 1
    /\ UNCHANGED << pc, signals, position_publisher, pending, outcome, calls,
                    publisher_, timer, target_position, heap, setterCopies,
                    running, sent, log, fired, sendFailures, constructFailure,
                    mutations >>

\* Simulated time: half a second passes only while the process is waiting
\* (not started yet, blocked in spin with no timer due, or gone).
AdvanceSimulated ==
    /\ now < MaxTime
    /\ \/ pc \in { "rclpy_init", "exited" }
       \/ pc = "spin" /\ running = << >> /\ ~TimerReady
    /\ now' = now + 1
    /\ UNCHANGED << pc, signals, position_publisher, pending, outcome, calls,
                    publisher_, timer, target_position, heap, setterCopies,
                    running, sent, log, fired, sendFailures, constructFailure,
                    mutations >>

\* A holder of an emitted message overwrites its first position: the list
\* the message refers to changes.
MutateEmitted ==
    /\ mutations < MaxMutations
    /\ \E i \in 1..Len(sent) :
          /\ sent[i].position # 0
          /\ heap' = [ heap EXCEPT ![sent[i].position][1] = 0 ]
    /\ mutations' = mutations + 1
    /\ UNCHANGED << pc, now, signals, position_publisher, pending, outcome,
                    calls, publisher_, timer, target_position, setterCopies,
                    running, sent, log, fired, sendFailures,
                    constructFailure >>

\* ---------------------------------------------------------- specifications
Program ==
    \/ RclpyInit
    \/ NodeInit
    \/ CreatePublisher
    \/ CreateTimer
    \/ SetTarget
    \/ LogReady
    \/ ConstructFails
    \/ DestroyNode
    \/ Shutdown
    \/ Interrupt
    \/ TimerFires
    \/ AssignMessage
    \/ PublishOk
    \/ PublishFails
    \/ LogPublished

Next == Program \/ Advance

\* The program with statements of any duration.
Spec == Init /\ [][Next]_vars

NextSimulated == Program \/ AdvanceSimulated

\* The program under simulated time.
SpecSimulated == Init /\ [][NextSimulated]_vars

NextMutated == Program \/ Advance \/ MutateEmitted

\* The program with a downstream holder that mutates emitted messages.
SpecMutated == Init /\ [][NextMutated]_vars

\* ---------------------------------------------------------------- claims
Range(s) == { s[i] : i \in 1..Len(s) }

IsPrefix(s, t) == Len(s) <= Len(t) /\ s = SubSeq(t, 1, Len(s))

\* The publisher's two states: Running while main is blocked in spin,
\* Stopped once spin has been left.
Running == pc = "spin"

Stopped == "rclpy.spin" \in Range(calls) /\ pc # "spin"

\* Exactly one SIGINT was delivered, and it arrived while main was in spin.
InterruptedInSpin == Len(signals) = 1 /\ signals[1].pc = "spin"

\* C1: every message handed to the transport carries, element for element and
\* in order, the target vector set at construction -- the first message and
\* every later one.
C1_PositionsEqualTarget ==
    \A i \in 1..Len(sent) : Deref(sent[i].position) = TargetPosition

\* C1 witness: a third tick has handed its message over while Running.
C1_Witness ==
    /\ Running
    /\ Len(sent) = 3
    /\ Deref(sent[3].position) = TargetPosition

C4_SendFailureNonFatal ==
    (sendFailures > 0 /\ signals = << >>) =>
        (Running /\ timer.state = "armed")

\* C5 (as claimed): when the constructor fails, spin is never entered, no
\* tick fires, nothing is emitted, and the error main ends with is the
\* constructor's.
C5_InitFailureSurfaced ==
    constructFailure # "none" =>
        /\ "rclpy.spin" \notin Range(calls)
        /\ fired = 0
        /\ sent = << >>
        /\ (pc = "exited" /\ signals = << >>) => outcome = "ConstructError"

\* C6: main starts its statements in program order -- rclpy.init, the
\* constructor, spin, destroy_node, rclpy.shutdown -- and after an interrupt
\* received in spin each of the two release steps has run exactly once and
\* main has returned normally.
C6_MainOrder ==
    /\ IsPrefix(calls, MainOrder)
    /\ (pc = "exited" /\ InterruptedInSpin) =>
          calls = MainOrder /\ outcome = "return" /\ pending = "none"

\* C6 witness: main has returned after an interrupt that followed a tick.
C6_Witness ==
    /\ pc = "exited"
    /\ InterruptedInSpin
    /\ signals[1].fired >= 1
    /\ calls = MainOrder
    /\ outcome = "return"

C8_OneMessagePerTick ==
    /\ (Running /\ running = << >>) => Len(sent) = fired
    /\ (Running /\ running = << >> /\ ~TimerReady) =>
          Len(sent) = (now - timer.created) \div TimerPeriod
    /\ Running => \A i \in 1..Len(sent) :
                      Deref(sent[i].position) = TargetPosition

\* C8 witness: 3.5 s after the timer was created, three messages are out.
C8_Witness ==
    /\ Running
    /\ running = << >>
    /\ now - timer.created = 7
    /\ Len(sent) = 3

C10_NoOverlap ==
    /\ Len(running) <= 1
    /\ running # << >> => pc = "spin" /\ target_position # 0
    /\ pc \in Constructing => fired = 0
    /\ pending # "AttributeError"

\* C10 witness: the timer is due again while the first publish_command is
\* still running, and its first call was already due when the constructor
\* wrote its last log line.
C10_Witness ==
    /\ running # << >>
    /\ TimerReady
    /\ fired = 1
    /\ log # << >>
    /\ log[1].time >= timer.created + TimerPeriod

====
